---- MODULE Spec2Model ----
(***************************************************************************)
(* Model of cronjobs/fetch_marc_updates.py: the download of dated tarballs *)
(* from an FTP server into a cumulative collection, and the clean-up of    *)
(* that collection.                                                        *)
(*                                                                         *)
(* A filename, a date and the text of a filename pattern are sequences of  *)
(* one-character strings, so that the regular expressions and the string   *)
(* comparisons of the script are computed on the characters.               *)
(***************************************************************************)
EXTENDS Integers, Sequences, FiniteSets, TLC

VARIABLES
    config,            \* which config file util.LoadConfigFile() has loaded
    backup_exists,     \* os.path.exists(output_directory)
    store,             \* os.listdir(output_directory): the cumulative collection
    remote,            \* directory on the FTP server -> names ftp.nlst() returns
    local_files,       \* files written to the working directory by this run
    pc,                \* position in Main()
    section,           \* the config section DownloadData() is working on
    step,              \* position inside DownloadData() / DownloadRemoteFiles()
    download_cutoff_date,   \* Main's variable of that name
    list_cutoff,       \* the cutoff the current DownloadData() call was given
    filenames,         \* result of GetListOfRemoteFiles() of the current call
    pending,           \* the files of it that DownloadRemoteFiles() has yet to fetch
    attempt,           \* i of the retry loop in GetListOfRemoteFiles()
    slept,             \* the time.sleep() arguments of the current listing call
    most_recent_complete_data_date,  \* local of CleanUpCumulativeCollection()
    store_at_cleanup,  \* the collection as CleanUpCumulativeCollection() found it
    msg,               \* Main's list of summary lines
    log,               \* history: the steps performed so far, in order
    mails,             \* the e-mails sent via util.SendEmail
    exit_status        \* "running", "zero" or "nonzero"

vars == <<config, backup_exists, store, remote, local_files, pc, section, step,
          download_cutoff_date, list_cutoff, filenames, pending, attempt, slept,
          most_recent_complete_data_date, store_at_cleanup, msg, log, mails,
          exit_status>>

-----------------------------------------------------------------------------
(* Characters and strings *)

Digits == {"0", "1", "2", "3", "4", "5", "6", "7", "8", "9"}

DigitVal(c) ==
    CASE c = "0" -> 0 [] c = "1" -> 1 [] c = "2" -> 2 [] c = "3" -> 3
      [] c = "4" -> 4 [] c = "5" -> 5 [] c = "6" -> 6 [] c = "7" -> 7
      [] c = "8" -> 8 [] c = "9" -> 9

DigitChar(n) ==
    CASE n = 0 -> "0" [] n = 1 -> "1" [] n = 2 -> "2" [] n = 3 -> "3"
      [] n = 4 -> "4" [] n = 5 -> "5" [] n = 6 -> "6" [] n = 7 -> "7"
      [] n = 8 -> "8" [] n = 9 -> "9"

\* s[i..i+5] are six digits (\d{6} matched at position i)
SixDigitsAt(s, i) ==
    /\ i >= 1
    /\ i + 5 <= Len(s)
    /\ \A k \in 0..5 : s[i + k] \in Digits

\* Python's a < b on strings of digits: the first differing character decides,
\* a proper prefix is smaller.
StrLess(a, b) ==
    \E i \in 1..Len(b) :
        /\ \A k \in 1..(i - 1) : k <= Len(a) /\ a[k] = b[k]
        /\ \/ i = Len(a) + 1
           \/ i <= Len(a) /\ DigitVal(a[i]) < DigitVal(b[i])

StrLessEq(a, b) == a = b \/ StrLess(a, b)

\* "000000" (= minus infinity)
Epoch == <<"0", "0", "0", "0", "0", "0">>

\* What a failed match or a failed conversion yields in place of a date.
None == <<>>

\* What a search for a file yields when there is none.
NoFile == "None"

-----------------------------------------------------------------------------
(* Dates: datetime.strptime(s, "%y%m%d"), timedelta, strftime("%y%m%d") *)

TwoDigits(s, i) == 10 * DigitVal(s[i]) + DigitVal(s[i + 1])

IsLeap(y) == (y % 4 = 0 /\ y % 100 # 0) \/ y % 400 = 0

DaysInMonth(y, m) ==
    IF m = 2 THEN (IF IsLeap(y) THEN 29 ELSE 28)
    ELSE IF m \in {4, 6, 9, 11} THEN 30 ELSE 31

\* %y: 00..68 are 2000..2068, 69..99 are 1969..1999
Strptime(s) ==
    LET yy == TwoDigits(s, 1)
    IN [year  |-> IF yy <= 68 THEN 2000 + yy ELSE 1900 + yy,
        month |-> TwoDigits(s, 3),
        day   |-> TwoDigits(s, 5)]

\* strptime raises ValueError unless the string is a calendar date
StrptimeOk(s) ==
    /\ Len(s) = 6
    /\ SixDigitsAt(s, 1)
    /\ LET d == Strptime(s)
       IN /\ d.month \in 1..12
          /\ d.day \in 1..DaysInMonth(d.year, d.month)

Strftime(d) ==
    LET yy == d.year % 100
    IN <<DigitChar(yy \div 10), DigitChar(yy % 10),
         DigitChar(d.month \div 10), DigitChar(d.month % 10),
         DigitChar(d.day \div 10), DigitChar(d.day % 10)>>

NextDay(d) ==
    IF d.day < DaysInMonth(d.year, d.month)
    THEN [d EXCEPT !.day = d.day + 1]
    ELSE IF d.month < 12
    THEN [d EXCEPT !.month = d.month + 1, !.day = 1]
    ELSE [year |-> d.year + 1, month |-> 1, day |-> 1]

PrevDay(d) ==
    IF d.day > 1
    THEN [d EXCEPT !.day = d.day - 1]
    ELSE IF d.month > 1
    THEN [d EXCEPT !.month = d.month - 1,
                   !.day = DaysInMonth(d.year, d.month - 1)]
    ELSE [year |-> d.year - 1, month |-> 12, day |-> 31]

RECURSIVE MinusDays(_, _)
MinusDays(d, n) == IF n = 0 THEN d ELSE MinusDays(PrevDay(d), n - 1)

\* A faulty IncrementStringDate that counts the day up and knows no calendar.
IncrementStringDate_DayOnly(yymmdd_string) ==
    IF yymmdd_string = Epoch
    THEN yymmdd_string
    ELSE Strftime([Strptime(yymmdd_string) EXCEPT
                       !.day = (Strptime(yymmdd_string).day + 1) % 100])

\* IncrementStringDate: defined for "000000" and for calendar dates
IncrementStringDate(yymmdd_string) ==
    IF yymmdd_string = Epoch
    THEN yymmdd_string
    ELSE Strftime(NextDay(Strptime(yymmdd_string)))

\* ShiftDateToTenDaysBefore: strptime raises on anything but a calendar date
ShiftDateRaises(date_to_shift) == ~StrptimeOk(date_to_shift)

ShiftDateToTenDaysBefore(date_to_shift) ==
    Strftime(MinusDays(Strptime(date_to_shift), 10))

-----------------------------------------------------------------------------
(* Regular expressions *)

\* A filename_pattern of the config file, ^STEM-(\d\d\d\d\d\d)TAIL$ or
\* ^(?:STEM|STEM|..)-(\d\d\d\d\d\d)TAIL$, kept as its parts.
Pattern(alts, grouped, sep, tail) ==
    [kind |-> "category", alts |-> alts, grouped |-> grouped, sep |-> sep,
     tail |-> tail]

\* ".+(\\d{6}).+" of ExtractDateFromFilename and GetCutoffDateForDownloads
date_extraction_regex == [kind |-> "date_extraction"]

\* '\\D*?-(\\d{6}).*' of DeleteAllFilesOlderThan
older_than_filename_regex == [kind |-> "older_than"]

\* re.compile(""), the default exclude_pattern of DeleteAllFilesOlderThan
EmptyRegex == [kind |-> "empty"]

RECURSIVE JoinAlts(_, _)
JoinAlts(alts, i) ==
    IF i > Len(alts) THEN <<>>
    ELSE (IF i > 1 THEN <<"|">> ELSE <<>>) \o alts[i] \o JoinAlts(alts, i + 1)

\* filename_regex.pattern: the text of a config pattern, one regex token per
\* element ("\\d" is one token).
PatternText(regex) ==
    <<"^">>
    \o (IF regex.grouped
        THEN <<"(", "?", ":">> \o JoinAlts(regex.alts, 1) \o <<")">>
        ELSE regex.alts[1])
    \o <<regex.sep>>
    \o <<"(", "\\d", "\\d", "\\d", "\\d", "\\d", "\\d", ")">>
    \o regex.tail
    \o <<"$">>

\* s matches ^alt sep (\d\d\d\d\d\d) tail$, where "." in tail is any character
AltMatches(regex, alt, s) ==
    /\ Len(s) = Len(alt) + 1 + 6 + Len(regex.tail)
    /\ SubSeq(s, 1, Len(alt)) = alt
    /\ s[Len(alt) + 1] = regex.sep
    /\ SixDigitsAt(s, Len(alt) + 2)
    /\ \A k \in 1..Len(regex.tail) :
           regex.tail[k] = "." \/ s[Len(alt) + 7 + k] = regex.tail[k]

\* regex.match(s): the index in s where group 1 starts, 0 when there is no match
MatchPos(regex, s) ==
    CASE regex.kind = "category" ->
           LET hits == {i \in 1..Len(regex.alts) : AltMatches(regex, regex.alts[i], s)}
           IN IF hits = {} THEN 0
              ELSE LET first == CHOOSE i \in hits : \A j \in hits : i <= j
                   IN Len(regex.alts[first]) + 2
      [] regex.kind = "date_extraction" ->
           \* greedy .+ : the last six digits that leave a character after them
           LET hits == {i \in 2..(Len(s) - 6) : SixDigitsAt(s, i)}
           IN IF hits = {} THEN 0
              ELSE CHOOSE i \in hits : \A j \in hits : j <= i
      [] regex.kind = "older_than" ->
           \* lazy \D*? : the first "-" after non-digits only that six digits follow
           LET hits == {i \in 2..(Len(s) - 5) :
                          /\ \A k \in 1..(i - 2) : s[k] \notin Digits
                          /\ s[i - 1] = "-"
                          /\ SixDigitsAt(s, i)}
           IN IF hits = {} THEN 0
              ELSE CHOOSE i \in hits : \A j \in hits : i <= j

\* bool(regex.match(s)); the empty pattern matches at the start of every string
MatchesChars(regex, s) ==
    IF regex.kind = "empty" THEN TRUE ELSE MatchPos(regex, s) # 0

\* match.group(1)
Group1Chars(regex, s) == SubSeq(s, MatchPos(regex, s), MatchPos(regex, s) + 5)

\* A faulty NeedsBothInstances that takes every pattern with a group of
\* alternatives for one that needs both instances.
NeedsBothInstances_Grouped(filename_regex) == filename_regex.grouped

\* NeedsBothInstances: "_o[)]?-[(]?.*[)]?" is searched in the pattern's text;
\* everything after the "-" is optional.
NeedsBothInstances(filename_regex) ==
    LET text == PatternText(filename_regex)
    IN \E i \in 1..(Len(text) - 2) :
           /\ text[i] = "_"
           /\ text[i + 1] = "o"
           /\ \/ text[i + 2] = "-"
              \/ /\ text[i + 2] = ")"
                 /\ i + 3 <= Len(text)
                 /\ text[i + 3] = "-"

-----------------------------------------------------------------------------
(* The config file *)

SA_MARC_ixtheo == <<"S", "A", "-", "M", "A", "R", "C", "-", "i", "x", "t", "h", "e", "o">>
TA_MARC_ixtheo == <<"T", "A", "-", "M", "A", "R", "C", "-", "i", "x", "t", "h", "e", "o">>
SA_MARC_ixtheo_o == SA_MARC_ixtheo \o <<"_", "o">>
TA_MARC_ixtheo_o == TA_MARC_ixtheo \o <<"_", "o">>
SA_MARC_ixtheo_hinweis == SA_MARC_ixtheo \o <<"_", "h", "i", "n", "w", "e", "i", "s">>
WA_MARCcomb == <<"W", "A", "-", "M", "A", "R", "C", "c", "o", "m", "b">>
LOEPPN == <<"L", "O", "E", "P", "P", "N">>
LOEPPN_m == LOEPPN \o <<"_", "m">>
Errors_ixtheo == <<"E", "r", "r", "o", "r", "s", "_", "i", "x", "t", "h", "e", "o">>
TarGz == <<".", "t", "a", "r", ".", "g", "z">>

Section(filename_pattern, directory_on_ftp_server) ==
    [filename_pattern |-> filename_pattern,
     directory_on_ftp_server |-> directory_on_ftp_server]

\* The config file the script's header gives as its example.
ExampleConfig ==
    [s \in {"Kompletter Abzug", "Differenzabzug", "Hinweisabzug",
            "Normdatendifferenzabzug", "Loeschlisten", "Loeschlisten2", "Errors"} |->
        CASE s = "Kompletter Abzug" ->
               Section(Pattern(<<SA_MARC_ixtheo>>, FALSE, "-", TarGz), "/ixtheo")
          [] s = "Differenzabzug" ->
               Section(Pattern(<<TA_MARC_ixtheo, SA_MARC_ixtheo_o, TA_MARC_ixtheo_o>>,
                               TRUE, "-", TarGz), "/ixtheo")
          [] s = "Hinweisabzug" ->
               Section(Pattern(<<SA_MARC_ixtheo_hinweis>>, FALSE, "-", TarGz), "/ixtheo")
          [] s = "Normdatendifferenzabzug" ->
               Section(Pattern(<<WA_MARCcomb>>, TRUE, "-", TarGz), "/sekkor")
          [] s = "Loeschlisten" ->
               Section(Pattern(<<LOEPPN>>, FALSE, "-", <<>>), "/sekkor")
          [] s = "Loeschlisten2" ->
               Section(Pattern(<<LOEPPN_m>>, FALSE, "-", <<>>), "/ixtheo")
          [] s = "Errors" ->
               Section(Pattern(<<Errors_ixtheo>>, FALSE, "_", <<>>), "/ixtheo")]

\* A config whose complete dumps come with and without local data, and which
\* has none of the optional sections but the authority one.
PairedConfig ==
    [s \in {"Kompletter Abzug", "Differenzabzug", "Normdatendifferenzabzug",
            "Loeschlisten"} |->
        CASE s = "Kompletter Abzug" ->
               Section(Pattern(<<SA_MARC_ixtheo, SA_MARC_ixtheo_o>>, TRUE, "-", TarGz),
                       "/ixtheo")
          [] s = "Differenzabzug" ->
               Section(Pattern(<<TA_MARC_ixtheo, TA_MARC_ixtheo_o>>, TRUE, "-", TarGz),
                       "/ixtheo")
          [] s = "Normdatendifferenzabzug" -> ExampleConfig[s]
          [] s = "Loeschlisten" -> ExampleConfig[s]]

\* The example config without its [Normdatendifferenzabzug] section.
NoAuthorityConfig ==
    [s \in DOMAIN ExampleConfig \ {"Normdatendifferenzabzug"} |-> ExampleConfig[s]]

ConfigFiles ==
    [c \in {"example", "paired", "no authority data"} |->
        CASE c = "example" -> ExampleConfig
          [] c = "paired" -> PairedConfig
          [] c = "no authority data" -> NoAuthorityConfig]

\* config.has_section
has_section(s) == s \in DOMAIN ConfigFiles[config]

\* config.get(section, "directory_on_ftp_server")
DirectoryOnFtpServer(s) == ConfigFiles[config][s].directory_on_ftp_server

\* GetFilenameRegexForSection, for a section the config has
GetFilenameRegexForSection(s) == ConfigFiles[config][s].filename_pattern

-----------------------------------------------------------------------------
(* The files the model draws the collection and the FTP server from *)

D200101 == <<"2", "0", "0", "1", "0", "1">>
D200112 == <<"2", "0", "0", "1", "1", "2">>
D200120 == <<"2", "0", "0", "1", "2", "0">>
D200121 == <<"2", "0", "0", "1", "2", "1">>

Name(stem, sep, date, ext) == stem \o <<sep>> \o date \o ext

README == <<"R", "E", "A", "D", "M", "E">>

\* What the cumulative collection may hold when the script starts.
StoreUniverse ==
    { "SA-MARC-ixtheo-200101.tar.gz",
      "SA-MARC-ixtheo-200120.tar.gz",
      "TA-MARC-ixtheo-200112.tar.gz",
      "TA-MARC-ixtheo-200121.tar.gz",
      "WA-MARCcomb-200101.tar.gz",
      "WA-MARCcomb-200112.tar.gz",
      "LOEPPN-200121",
      "README" }

Directories == {"/ixtheo", "/sekkor"}

\* What the FTP server may offer, by directory.
RemoteUniverse ==
    [d \in Directories |->
        IF d = "/ixtheo"
        THEN { "SA-MARC-ixtheo-200120.tar.gz",
               "SA-MARC-ixtheo-200121.tar.gz",
               "SA-MARC-ixtheo_o-200121.tar.gz",
               "TA-MARC-ixtheo-200121.tar.gz",
               "TA-MARC-ixtheo_o-200121.tar.gz",
               "SA-MARC-ixtheo_hinweis-200101.tar.gz" }
        ELSE { "WA-MARCcomb-200112.tar.gz",
               "LOEPPN-200121" }]

\* Names of the remaining sections, for the functions called on one name.
FurtherNames == {"LOEPPN_m-200112", "Errors_ixtheo_200120"}

\* The characters of the names above.
CharsOf ==
    [f \in StoreUniverse \cup RemoteUniverse["/ixtheo"] \cup RemoteUniverse["/sekkor"]
            \cup FurtherNames |->
        CASE f = "SA-MARC-ixtheo-200101.tar.gz" -> Name(SA_MARC_ixtheo, "-", D200101, TarGz)
          [] f = "SA-MARC-ixtheo-200120.tar.gz" -> Name(SA_MARC_ixtheo, "-", D200120, TarGz)
          [] f = "TA-MARC-ixtheo-200112.tar.gz" -> Name(TA_MARC_ixtheo, "-", D200112, TarGz)
          [] f = "TA-MARC-ixtheo-200121.tar.gz" -> Name(TA_MARC_ixtheo, "-", D200121, TarGz)
          [] f = "WA-MARCcomb-200101.tar.gz" -> Name(WA_MARCcomb, "-", D200101, TarGz)
          [] f = "WA-MARCcomb-200112.tar.gz" -> Name(WA_MARCcomb, "-", D200112, TarGz)
          [] f = "LOEPPN-200121" -> Name(LOEPPN, "-", D200121, <<>>)
          [] f = "README" -> README
          [] f = "SA-MARC-ixtheo-200121.tar.gz" -> Name(SA_MARC_ixtheo, "-", D200121, TarGz)
          [] f = "SA-MARC-ixtheo_o-200121.tar.gz" -> Name(SA_MARC_ixtheo_o, "-", D200121, TarGz)
          [] f = "TA-MARC-ixtheo_o-200121.tar.gz" -> Name(TA_MARC_ixtheo_o, "-", D200121, TarGz)
          [] f = "SA-MARC-ixtheo_hinweis-200101.tar.gz" -> Name(SA_MARC_ixtheo_hinweis, "-", D200101, TarGz)
          [] f = "LOEPPN_m-200112" -> Name(LOEPPN_m, "-", D200112, <<>>)
          [] f = "Errors_ixtheo_200120" -> Name(Errors_ixtheo, "_", D200120, <<>>)]

Chars(f) == CharsOf[f]

\* bool(regex.match(filename)) and match.group(1), for a file by its name
Matches(regex, f) == MatchesChars(regex, Chars(f))

Group1(regex, f) == Group1Chars(regex, Chars(f))

\* A faulty AreBothInstancesPresent that is content with two files or more.
AreBothInstancesPresent_AtLeastTwo(filename_regex, remote_files) ==
    IF remote_files = {} THEN TRUE
    ELSE Cardinality({f \in remote_files : Matches(filename_regex, f)}) >= 2

\* AreBothInstancesPresent
AreBothInstancesPresent(filename_regex, remote_files) ==
    IF remote_files = {} THEN TRUE
    ELSE Cardinality({f \in remote_files : Matches(filename_regex, f)}) % 2 = 0

\* ExtractDateFromFilename: None stands for the util.Error it ends in
ExtractDateFromFilename(filename) ==
    IF Matches(date_extraction_regex, filename)
    THEN Group1(date_extraction_regex, filename)
    ELSE None

\* GetMostRecentFile: the file with the greatest group(1) above "000000".
\* Files of equal date differ in nothing the callers read (they take the date).
GetMostRecentFile(filename_regex, names) ==
    LET dated == {f \in names : /\ Matches(filename_regex, f)
                                /\ StrLess(Epoch, Group1(filename_regex, f))}
    IN IF dated = {} THEN NoFile
       ELSE CHOOSE f \in dated :
                \A g \in dated :
                    StrLessEq(Group1(filename_regex, g), Group1(filename_regex, f))

\* Bound on the number of files the collection and the server start with,
\* taken together.
MaxFiles == 4

\* A faulty order that fetches the hints before the second deletion lists.
SectionOrder_HintsFirst ==
    <<"Kompletter Abzug", "Differenzabzug", "Loeschlisten", "Hinweisabzug",
      "Loeschlisten2", "Errors">>

\* The order in which Main() goes through the sections it downloads with
\* DownloadData(); the authority dumps come after the cutoff has been shifted.
SectionOrder ==
    <<"Kompletter Abzug", "Differenzabzug", "Loeschlisten", "Loeschlisten2",
      "Hinweisabzug", "Errors">>

Init ==
    /\ config \in DOMAIN ConfigFiles
    /\ backup_exists \in BOOLEAN
    /\ store \in {s \in SUBSET StoreUniverse :
                    /\ Cardinality(s) <= MaxFiles
                    /\ (~backup_exists => s = {})}
    /\ \E ixtheo \in SUBSET RemoteUniverse["/ixtheo"], sekkor \in SUBSET RemoteUniverse["/sekkor"] :
           /\ Cardinality(store) + Cardinality(ixtheo) + Cardinality(sekkor) <= MaxFiles
           /\ remote = [d \in Directories |-> IF d = "/ixtheo" THEN ixtheo ELSE sekkor]
    /\ local_files = {}
    /\ pc = "Main"
    /\ section = "none"
    /\ step = "none"
    /\ download_cutoff_date = None
    /\ list_cutoff = None
    /\ filenames = {}
    /\ pending = {}
    /\ attempt = 0
    /\ slept = <<>>
    /\ most_recent_complete_data_date = None
    /\ store_at_cleanup = {}
    /\ msg = <<>>
    /\ log = <<>>
    /\ mails = <<>>
    /\ exit_status = "running"

-----------------------------------------------------------------------------
(* How a run ends *)

Exit(status, mail) ==
    /\ pc' = "exited"
    /\ exit_status' = status
    /\ mails' = Append(mails, mail)

\* util.Error(msg): reports the error by e-mail and ends the process with a
\* non-zero status.
UtilError(text) ==
    Exit("nonzero", [subject |-> "error", priority |-> 1, text |-> text])

\* An exception that leaves Main(): the handler at the foot of the script mails
\* "An unexpected error occurred" and the script runs off its end.
UnexpectedError(text) ==
    Exit("zero", [subject |-> "BSZ File Update", priority |-> 1, text |-> text])

\* util.error(msg), called for a complete dump of differing dates: the run ends
\* there, as a util.Error or as the exception of a call that does not exist.
UtilLowercaseError(text) == UtilError(text) \/ UnexpectedError(text)

Logged(op, sec, arg) ==
    log' = Append(log, [op |-> op, section |-> sec, arg |-> arg])

-----------------------------------------------------------------------------
(* Main(), up to the first DownloadData() *)

\* A faulty GetCutoffDateForDownloads that looks at the complete dumps only.
GetCutoffDateForDownloads_CompleteOnly ==
    LET most_recent_backup_file ==
            GetMostRecentFile(GetFilenameRegexForSection("Kompletter Abzug"), store)
    IN IF most_recent_backup_file = NoFile
       THEN Epoch
       ELSE ExtractDateFromFilename(most_recent_backup_file)

\* GetCutoffDateForDownloads, for an existing backup directory
GetCutoffDateForDownloads ==
    LET most_recent_backup_file == GetMostRecentFile(date_extraction_regex, store)
    IN IF most_recent_backup_file = NoFile
       THEN Epoch
       ELSE ExtractDateFromFilename(most_recent_backup_file)

OptionalSections == {"Loeschlisten2", "Hinweisabzug", "Errors"}

\* The section Main() turns to after section sec, "none" after the last one.
NextSection(sec) ==
    LET idx == CHOOSE i \in 1..Len(SectionOrder) : SectionOrder[i] = sec
        later == {j \in (idx + 1)..Len(SectionOrder) :
                    SectionOrder[j] \notin OptionalSections \/ has_section(SectionOrder[j])}
    IN IF later = {} THEN "none"
       ELSE SectionOrder[CHOOSE j \in later : \A k \in later : j <= k]

\* The cutoff Main() hands to DownloadData() for section sec.
CutoffFor(sec, cutoff) == IF sec = "Hinweisabzug" THEN Epoch ELSE cutoff

\* Main() goes on after the DownloadData() of section sec has returned.
Continue(sec, cutoff) ==
    LET next == NextSection(sec)
    IN /\ download_cutoff_date' = cutoff
       /\ filenames' = {}
       /\ IF sec = "Normdatendifferenzabzug"
          THEN pc' = "CleanUp" /\ section' = "none" /\ step' = "none"
               /\ list_cutoff' = None
          ELSE IF next = "none"
          THEN pc' = "ShiftDate" /\ section' = "none" /\ step' = "none"
               /\ list_cutoff' = None
          ELSE pc' = "DownloadData" /\ section' = next /\ step' = "list"
               /\ list_cutoff' = CutoffFor(next, cutoff)

MainStart ==
    /\ pc = "Main"
    /\ IF ~backup_exists
       THEN \* GetBackupDirectoryPath: backup directory is missing
            /\ UtilError("backup directory is missing")
            /\ UNCHANGED <<download_cutoff_date, list_cutoff, section, step, log>>
       ELSE IF GetCutoffDateForDownloads # Epoch /\ ~StrptimeOk(GetCutoffDateForDownloads)
       THEN \* strptime raises in IncrementStringDate
            /\ UnexpectedError("ValueError")
            /\ UNCHANGED <<download_cutoff_date, list_cutoff, section, step, log>>
       ELSE /\ download_cutoff_date' = IncrementStringDate(GetCutoffDateForDownloads)
            /\ list_cutoff' = download_cutoff_date'
            /\ pc' = "DownloadData"
            /\ section' = "Kompletter Abzug"
            /\ step' = "list"
            /\ Logged("cutoff", "none", download_cutoff_date')
            /\ UNCHANGED <<mails, exit_status>>
    /\ UNCHANGED <<config, backup_exists, store, remote, local_files, filenames,
                   pending, attempt, slept, most_recent_complete_data_date,
                   store_at_cleanup, msg>>

-----------------------------------------------------------------------------
(* DownloadData(): list, validate, download, archive *)

\* The retry loop of GetListOfRemoteFiles runs at most this often.
MaxListAttempts == 3

\* A faulty filter that keeps only the files dated after the cutoff.
GetListOfRemoteFiles_After(filename_regex, names, download_cutoff) ==
    {f \in names : /\ Matches(filename_regex, f)
                   /\ StrLess(download_cutoff, Group1(filename_regex, f))}

\* The filter of GetListOfRemoteFiles over the names ftp.nlst() returned
GetListOfRemoteFiles(filename_regex, names, download_cutoff) ==
    {f \in names : /\ Matches(filename_regex, f)
                   /\ StrLessEq(download_cutoff, Group1(filename_regex, f))}

\* ftp.cwd() and an ftp.nlst() that answers
ListRemoteFiles ==
    /\ pc = "DownloadData"
    /\ step = "list"
    /\ attempt < MaxListAttempts
    /\ IF ~has_section(section)
       THEN \* GetFilenameRegexForSection: invalid section
            /\ UtilError("Invalid section")
            /\ UNCHANGED <<filenames, pending, step, attempt, slept, log>>
       ELSE /\ filenames' = GetListOfRemoteFiles(
                                GetFilenameRegexForSection(section),
                                remote[DirectoryOnFtpServer(section)],
                                list_cutoff)
            /\ pending' = filenames'
            /\ step' = "validate"
            /\ attempt' = 0
            /\ slept' = <<>>
            /\ Logged("list", section, list_cutoff)
            /\ UNCHANGED <<pc, mails, exit_status>>
    /\ UNCHANGED <<config, backup_exists, store, remote, local_files, section,
                   download_cutoff_date, list_cutoff,
                   most_recent_complete_data_date, store_at_cleanup, msg>>

\* The consistency check of DownloadRemoteFiles
ValidateBatch ==
    /\ pc = "DownloadData"
    /\ step = "validate"
    /\ IF /\ NeedsBothInstances(GetFilenameRegexForSection(section))
          /\ ~AreBothInstancesPresent(GetFilenameRegexForSection(section), filenames)
       THEN \* "Skip downloading of files since apparently generation is not complete"
            /\ UtilError("generation is not complete")
            /\ UNCHANGED <<step, log>>
       ELSE /\ step' = "download"
            /\ Logged("validate", section, None)
            /\ UNCHANGED <<pc, mails, exit_status>>
    /\ UNCHANGED <<config, backup_exists, store, remote, local_files, section,
                   download_cutoff_date, list_cutoff, filenames, pending, attempt,
                   slept, most_recent_complete_data_date, store_at_cleanup, msg>>

\* DownLoadFile for one more file of the batch
DownLoadFile ==
    /\ pc = "DownloadData"
    /\ step = "download"
    /\ \E remote_filename \in pending :
           /\ local_files' = local_files \cup {remote_filename}
           /\ pending' = pending \ {remote_filename}
           /\ Logged("download", section, remote_filename)
    /\ UNCHANGED <<config, backup_exists, store, remote, pc, section, step,
                   download_cutoff_date, list_cutoff, filenames, attempt, slept,
                   most_recent_complete_data_date, store_at_cleanup, msg, mails,
                   exit_status>>

\* A faulty AddToCumulativeCollection that puts the batch in place of the
\* collection.
AddToCumulativeCollection_Replace(downloaded_files) == downloaded_files

\* AddToCumulativeCollection: every downloaded file is copied to the collection
AddToCumulativeCollection(downloaded_files) == store \cup downloaded_files

\* The rest of DownloadData once DownloadRemoteFiles has returned, and for every
\* section but the complete dumps the return to Main().
ReportAndArchive ==
    /\ pc = "DownloadData"
    /\ step = "download"
    /\ pending = {}
    /\ IF filenames = {}
       THEN /\ msg' = Append(msg, [section |-> section, line |-> "No more recent file"])
            /\ UNCHANGED <<store, backup_exists>>
       ELSE /\ msg' = Append(msg, [section |-> section, line |-> "Successfully downloaded"])
            /\ store' = AddToCumulativeCollection(filenames)
            /\ backup_exists' = TRUE
    /\ Logged("archive", section, None)
    /\ IF section = "Kompletter Abzug"
       THEN /\ step' = "check"
            /\ UNCHANGED <<pc, section, download_cutoff_date, list_cutoff, filenames>>
       ELSE Continue(section, download_cutoff_date)
    /\ UNCHANGED <<config, remote, local_files, pending, attempt, slept,
                   most_recent_complete_data_date, store_at_cleanup, mails,
                   exit_status>>

\* A faulty new cutoff: the day after the date of the complete dump.
CutoffAfterCompleteData_DayAfter(complete_data_filenames) ==
    IncrementStringDate(
        ExtractDateFromFilename(CHOOSE f \in complete_data_filenames : TRUE))

\* Main()'s cutoff once DownloadCompleteData has returned files: the date of
\* complete_data_filenames[0]; the files of an accepted batch agree on it.
CutoffAfterCompleteData(complete_data_filenames) ==
    ExtractDateFromFilename(CHOOSE f \in complete_data_filenames : TRUE)

\* The rest of DownloadCompleteData, and Main()'s new cutoff after it
CheckCompleteData ==
    /\ pc = "DownloadData"
    /\ step = "check"
    /\ LET paired == NeedsBothInstances(GetFilenameRegexForSection("Kompletter Abzug"))
           dates == {ExtractDateFromFilename(f) : f \in filenames}
       IN IF filenames = {}
          THEN \* returns None: the cutoff stays
               /\ Continue(section, download_cutoff_date)
               /\ Logged("no complete data", section, None)
               /\ UNCHANGED <<mails, exit_status>>
          ELSE IF ~paired /\ Cardinality(filenames) > 1
          THEN \* "downloaded multiple complete date tar files!"
               /\ UtilError("downloaded multiple complete date tar files")
               /\ UNCHANGED <<section, step, download_cutoff_date, list_cutoff,
                              filenames, log>>
          ELSE IF None \in dates
          THEN \* ExtractDateFromFilename: does not contain a date
               /\ UtilError("does not contain a date")
               /\ UNCHANGED <<section, step, download_cutoff_date, list_cutoff,
                              filenames, log>>
          ELSE IF paired /\ Cardinality(dates) > 1
          THEN \* "We have a complete data dump set with differing dates"
               /\ UtilLowercaseError("complete data dump set with differing dates")
               /\ UNCHANGED <<section, step, download_cutoff_date, list_cutoff,
                              filenames, log>>
          ELSE /\ Continue(section, CutoffAfterCompleteData(filenames))
               /\ Logged("complete data", section, CutoffAfterCompleteData(filenames))
               /\ UNCHANGED <<mails, exit_status>>
    /\ UNCHANGED <<config, backup_exists, store, remote, local_files, pending,
                   attempt, slept, most_recent_complete_data_date, store_at_cleanup,
                   msg>>

-----------------------------------------------------------------------------
(* Main(): the authority dumps *)

\* GetMostRecentLocalFile(filename_regex, cumulative_directory) of
\* CurrentIncrementalAuthorityDumpPresent
MostRecentIncrementalAuthorityDump ==
    GetMostRecentFile(GetFilenameRegexForSection("Normdatendifferenzabzug"), store)

\* CurrentIncrementalAuthorityDumpPresent ends in the util.Error of
\* ExtractDateFromFilename
AuthorityDumpDateMissing ==
    /\ MostRecentIncrementalAuthorityDump # NoFile
    /\ ExtractDateFromFilename(MostRecentIncrementalAuthorityDump) = None

\* A faulty CurrentIncrementalAuthorityDumpPresent that compares with >=.
CurrentIncrementalAuthorityDumpPresent_OrEqual(cutoff_date) ==
    IF MostRecentIncrementalAuthorityDump = NoFile
    THEN FALSE
    ELSE StrLessEq(cutoff_date,
                   ExtractDateFromFilename(MostRecentIncrementalAuthorityDump))

\* CurrentIncrementalAuthorityDumpPresent, when it returns
CurrentIncrementalAuthorityDumpPresent(cutoff_date) ==
    IF MostRecentIncrementalAuthorityDump = NoFile
    THEN FALSE
    ELSE StrLess(cutoff_date,
                 ExtractDateFromFilename(MostRecentIncrementalAuthorityDump))

\* Lines 359-364 of Main()
ShiftCutoffForAuthorityData ==
    /\ pc = "ShiftDate"
    /\ IF ShiftDateRaises(download_cutoff_date)
       THEN \* ValueError of strptime
            /\ UnexpectedError("ValueError")
            /\ UNCHANGED <<section, step, list_cutoff, msg, log>>
       ELSE LET incremental_authority_cutoff_date ==
                    ShiftDateToTenDaysBefore(download_cutoff_date)
            IN IF ~has_section("Normdatendifferenzabzug")
               THEN /\ pc' = "CleanUp"
                    /\ UNCHANGED <<section, step, list_cutoff, msg, log, mails,
                                   exit_status>>
               ELSE IF AuthorityDumpDateMissing
                       THEN /\ UtilError("does not contain a date")
                            /\ UNCHANGED <<section, step, list_cutoff, msg, log>>
                       ELSE IF ~CurrentIncrementalAuthorityDumpPresent(
                                    incremental_authority_cutoff_date)
                       THEN /\ pc' = "DownloadData"
                            /\ section' = "Normdatendifferenzabzug"
                            /\ step' = "list"
                            /\ list_cutoff' = incremental_authority_cutoff_date
                            /\ UNCHANGED <<msg, log, mails, exit_status>>
                       ELSE /\ pc' = "CleanUp"
                            /\ msg' = Append(msg, [section |-> "Normdatendifferenzabzug",
                                                   line |-> "Skipping Download"])
                            /\ Logged("skip", "Normdatendifferenzabzug",
                                      incremental_authority_cutoff_date)
                            /\ UNCHANGED <<section, step, list_cutoff, mails, exit_status>>
    /\ UNCHANGED <<config, backup_exists, store, remote, local_files,
                   download_cutoff_date, filenames, pending, attempt, slept,
                   most_recent_complete_data_date, store_at_cleanup>>

-----------------------------------------------------------------------------
(* CleanUpCumulativeCollection() *)

\* DeleteAllFilesOlderThan: the names left in the directory
DeleteAllFilesOlderThan(date, names, exclude_regex) ==
    {f \in names :
        ~(/\ Matches(older_than_filename_regex, f)
          /\ StrLess(Group1(older_than_filename_regex, f), date)
          /\ ~Matches(exclude_regex, f))}

\* A faulty clean-up that reads the pattern of the wrong section.
filename_complete_data_regex_WrongSection ==
    GetFilenameRegexForSection("Differenzabzug")

\* filename_complete_data_regex of CleanUpCumulativeCollection
filename_complete_data_regex == GetFilenameRegexForSection("Kompletter Abzug")

\* incremental_authority_data_regex of CleanUpCumulativeCollection
incremental_authority_data_regex == GetFilenameRegexForSection("Normdatendifferenzabzug")

\* "Find the latest complete data file"
most_recent_complete_data_filename ==
    GetMostRecentFile(filename_complete_data_regex, store)

\* Up to "Extract the date": without a complete data file, or with a name the
\* pattern does not match, the function returns and nothing is deleted.
CleanUpBegin ==
    /\ pc = "CleanUp"
    /\ store_at_cleanup' = store
    /\ IF ~backup_exists \/ ~has_section("Normdatendifferenzabzug")
       THEN \* GetBackupDirectoryPath or GetFilenameRegexForSection
            /\ UtilError(IF backup_exists THEN "Invalid section"
                         ELSE "backup directory is missing")
            /\ UNCHANGED <<most_recent_complete_data_date, log>>
       ELSE IF \/ most_recent_complete_data_filename = NoFile
               \/ ~Matches(filename_complete_data_regex,
                           most_recent_complete_data_filename)
       THEN /\ pc' = "SendEmail"
            /\ Logged("cleanup skipped", "none", None)
            /\ UNCHANGED <<most_recent_complete_data_date, mails, exit_status>>
       ELSE /\ pc' = "CleanUpPass1"
            /\ most_recent_complete_data_date' =
                   Group1(filename_complete_data_regex,
                          most_recent_complete_data_filename)
            /\ Logged("cleanup", "none", most_recent_complete_data_date')
            /\ UNCHANGED <<mails, exit_status>>
    /\ UNCHANGED <<config, backup_exists, store, remote, local_files, section, step,
                   download_cutoff_date, list_cutoff, filenames, pending, attempt,
                   slept, msg>>

\* "Delete all older Files but skip incremental authority dumps"
CleanUpPass1 ==
    /\ pc = "CleanUpPass1"
    /\ store' = DeleteAllFilesOlderThan(
                    most_recent_complete_data_date, store,
                    incremental_authority_data_regex)
    /\ pc' = "CleanUpPass2"
    /\ Logged("prune", "none", most_recent_complete_data_date)
    /\ UNCHANGED <<config, backup_exists, remote, local_files, section, step,
                   download_cutoff_date, list_cutoff, filenames, pending, attempt,
                   slept, most_recent_complete_data_date, store_at_cleanup, msg,
                   mails, exit_status>>

\* "Now explicitly delete incremental authority dumps that are too old"
CleanUpPass2 ==
    /\ pc = "CleanUpPass2"
    /\ IF ShiftDateRaises(most_recent_complete_data_date)
       THEN /\ UnexpectedError("ValueError")
            /\ UNCHANGED <<store, log>>
       ELSE /\ store' = DeleteAllFilesOlderThan(
                            ShiftDateToTenDaysBefore(most_recent_complete_data_date),
                            store, EmptyRegex)
            /\ pc' = "SendEmail"
            /\ Logged("prune", "none",
                      ShiftDateToTenDaysBefore(most_recent_complete_data_date))
            /\ UNCHANGED <<mails, exit_status>>
    /\ UNCHANGED <<config, backup_exists, remote, local_files, section, step,
                   download_cutoff_date, list_cutoff, filenames, pending, attempt,
                   slept, most_recent_complete_data_date, store_at_cleanup, msg>>

\* The last line of Main(), and the script runs off its end
SendSummary ==
    /\ pc = "SendEmail"
    /\ Exit("zero", [subject |-> "BSZ File Update", priority |-> 5, text |-> "summary"])
    /\ UNCHANGED <<config, backup_exists, store, remote, local_files, section, step,
                   download_cutoff_date, list_cutoff, filenames, pending, attempt,
                   slept, most_recent_complete_data_date, store_at_cleanup, msg, log>>

-----------------------------------------------------------------------------
(* Failures of the FTP server and of the local file system *)

\* ftp.cwd() raises: "can't change directory"
ChangeDirectoryFails ==
    /\ pc = "DownloadData"
    /\ step = "list"
    /\ attempt = 0
    /\ has_section(section)
    /\ UtilError("can't change directory")
    /\ UNCHANGED <<config, backup_exists, store, remote, local_files, section, step,
                   download_cutoff_date, list_cutoff, filenames, pending, attempt,
                   slept, most_recent_complete_data_date, store_at_cleanup, msg, log>>

\* A faulty retry that waits ten seconds after every failed attempt.
ListAttemptFails_SameBackoff ==
    /\ pc = "DownloadData"
    /\ step = "list"
    /\ has_section(section)
    /\ attempt < MaxListAttempts
    /\ attempt' = attempt + 1
    /\ slept' = Append(slept, 10)
    /\ UNCHANGED <<config, backup_exists, store, remote, local_files, pc, section,
                   step, download_cutoff_date, list_cutoff, filenames, pending,
                   most_recent_complete_data_date, store_at_cleanup, msg, log,
                   mails, exit_status>>

\* ftp.nlst() raises in attempt i: time.sleep(10 * (i + 1))
ListAttemptFails ==
    /\ pc = "DownloadData"
    /\ step = "list"
    /\ has_section(section)
    /\ attempt < MaxListAttempts
    /\ attempt' = attempt + 1
    /\ slept' = Append(slept, 10 * (attempt + 1))
    /\ UNCHANGED <<config, backup_exists, store, remote, local_files, pc, section,
                   step, download_cutoff_date, list_cutoff, filenames, pending,
                   most_recent_complete_data_date, store_at_cleanup, msg, log,
                   mails, exit_status>>

\* "raise exception" after the last attempt
ListGivesUp ==
    /\ pc = "DownloadData"
    /\ step = "list"
    /\ attempt = MaxListAttempts
    /\ UnexpectedError("listing failed")
    /\ UNCHANGED <<config, backup_exists, store, remote, local_files, section, step,
                   download_cutoff_date, list_cutoff, filenames, pending, attempt,
                   slept, most_recent_complete_data_date, store_at_cleanup, msg, log>>

\* DownLoadFile: the local open, a write or the transfer fails
DownLoadFileFails ==
    /\ pc = "DownloadData"
    /\ step = "download"
    /\ pending # {}
    /\ UtilError("File download failed")
    /\ UNCHANGED <<config, backup_exists, store, remote, local_files, section, step,
                   download_cutoff_date, list_cutoff, filenames, pending, attempt,
                   slept, most_recent_complete_data_date, store_at_cleanup, msg, log>>

\* AddToCumulativeCollection: a shutil.copy fails after some files were copied
AddToCumulativeCollectionFails ==
    /\ pc = "DownloadData"
    /\ step = "download"
    /\ pending = {}
    /\ filenames # {}
    /\ \E copied \in SUBSET filenames :
           /\ copied # filenames
           /\ store' = AddToCumulativeCollection(copied)
    /\ msg' = Append(msg, [section |-> section, line |-> "Successfully downloaded"])
    /\ UtilError("Adding file to cumulative collection failed")
    /\ UNCHANGED <<config, backup_exists, remote, local_files, section, step,
                   download_cutoff_date, list_cutoff, filenames, pending, attempt,
                   slept, most_recent_complete_data_date, store_at_cleanup, log>>

-----------------------------------------------------------------------------

Next ==
    \/ MainStart
    \/ ListRemoteFiles
    \/ ValidateBatch
    \/ DownLoadFile
    \/ ReportAndArchive
    \/ CheckCompleteData
    \/ ShiftCutoffForAuthorityData
    \/ CleanUpBegin
    \/ CleanUpPass1
    \/ CleanUpPass2
    \/ SendSummary
    \/ ChangeDirectoryFails
    \/ ListAttemptFails
    \/ ListGivesUp
    \/ DownLoadFileFails
    \/ AddToCumulativeCollectionFails

Spec == Init /\ [][Next]_vars

-----------------------------------------------------------------------------
(* Properties: vocabulary *)

LastMail == mails[Len(mails)]

CompleteDataPattern == ConfigFiles[config]["Kompletter Abzug"].filename_pattern

AuthorityDataPattern == ConfigFiles[config]["Normdatendifferenzabzug"].filename_pattern

\* The greatest of a non-empty set of dates, by string comparison.
Latest(dates) == CHOOSE d \in dates : \A e \in dates : StrLessEq(e, d)

\* The log entries with the given operation.
Entries(op) == {i \in 1..Len(log) : log[i].op = op}

\* The files of the current batch that match the section's pattern.
MatchingBatch ==
    {f \in filenames : Matches(ConfigFiles[config][section].filename_pattern, f)}

\* The listing of the current section has returned an odd number of files of a
\* pattern that needs both instances.
OddPairedBatch ==
    /\ section # "none"
    /\ has_section(section)
    /\ step # "list"
    /\ NeedsBothInstances(ConfigFiles[config][section].filename_pattern)
    /\ Cardinality(MatchingBatch) % 2 = 1

\* C1: when the listing of a category that needs paired instances holds an odd
\* number of matching filenames, the run goes no further than the validation
\* of that batch and ends there in a fatal error; no file of the batch is
\* downloaded or added to the cumulative collection.
C1_OddPairedBatchAborts ==
    OddPairedBatch =>
        /\ step = "validate"
        /\ filenames \cap local_files = {}
        /\ filenames \cap store = {}
        /\ \A i \in 1..Len(log) :
               log[i].section = section => log[i].op \notin {"download", "archive"}
        /\ pc = "exited" =>
               /\ exit_status = "nonzero"
               /\ LastMail.priority = 1
               /\ LastMail.text = "generation is not complete"

C1_Witness ==
    /\ OddPairedBatch
    /\ Cardinality(filenames) = 3
    /\ pc = "exited"

-----------------------------------------------------------------------------
(* Properties of the clean-up *)

\* CleanUpCumulativeCollection() has run both of its deletions.
CleanUpDone == pc = "SendEmail" /\ most_recent_complete_data_date # None

\* The date of the most recent complete dump the clean-up found.
DumpDateAtCleanUp ==
    Latest({Group1(CompleteDataPattern, f) :
              f \in {g \in store_at_cleanup : Matches(CompleteDataPattern, g)}})

\* f has the shape name-dash-6digits and its date is before d
DatedBefore(f, d) ==
    /\ Matches(older_than_filename_regex, f)
    /\ StrLess(Group1(older_than_filename_regex, f), d)

\* C2: after the clean-up on a collection whose most recent complete dump has
\* date D, of the files of the shape name-dash-6digits exactly those remain
\* that have a date >= D or are authority differentials with a date >= D - 10
\* days: older authority differentials are deleted, those in [D - 10, D) kept.
C2_CleanUpRetention ==
    CleanUpDone =>
        \A f \in {g \in store_at_cleanup : Matches(older_than_filename_regex, g)} :
            f \in store <=>
                \/ ~DatedBefore(f, DumpDateAtCleanUp)
                \/ /\ Matches(AuthorityDataPattern, f)
                   /\ ~DatedBefore(f, ShiftDateToTenDaysBefore(DumpDateAtCleanUp))

\* What DeleteAllFilesOlderThan(d, exclude) is to leave of the names in before:
\* no dated file before d unless exclude matches it, and every undated file.
Pruned(before, after, d, exclude) ==
    /\ \A f \in after : DatedBefore(f, d) => Matches(exclude, f)
    /\ \A f \in before : ~Matches(older_than_filename_regex, f) => f \in after

\* A pattern that matches no filename: the exclude of a call that gives none.
NoExclude == Pattern(<<<<>>>>, FALSE, "/", <<>>)

\* C3: after Prune(olderThan = D, exclude = M) no remaining file has a date
\* before D unless M matches it, and every file without a date is still there;
\* without an exclude matcher every dated file older than D is gone.
C3_PruneRetention ==
    /\ pc = "CleanUpPass2" =>
           Pruned(store_at_cleanup, store, DumpDateAtCleanUp, AuthorityDataPattern)
    /\ CleanUpDone =>
           Pruned(store_at_cleanup, store,
                  ShiftDateToTenDaysBefore(DumpDateAtCleanUp), NoExclude)

\* C8: when the collection holds no complete dump, the clean-up deletes
\* nothing: the collection is afterwards what it was before.
C8_NoCompleteDumpNoCleanUp ==
    (/\ pc \in {"CleanUpPass1", "CleanUpPass2", "SendEmail"}
     /\ \A f \in store_at_cleanup : ~Matches(CompleteDataPattern, f))
        => store = store_at_cleanup

C8_Witness ==
    /\ pc = "SendEmail"
    /\ \A f \in store_at_cleanup : ~Matches(CompleteDataPattern, f)
    /\ \E f \in store_at_cleanup, g \in store_at_cleanup :
           /\ Matches(older_than_filename_regex, f)
           /\ Matches(older_than_filename_regex, g)
           /\ StrLess(Group1(older_than_filename_regex, f),
                      Group1(older_than_filename_regex, g))

-----------------------------------------------------------------------------
(* Properties of the cutoff dates *)

\* Main() has computed its first cutoff and has not touched the collection.
AtFirstListing ==
    pc = "DownloadData" /\ section = "Kompletter Abzug" /\ step = "list"

\* The dates of the complete dumps among names.
CompleteDumpDates(names) ==
    {Group1(CompleteDataPattern, f) :
       f \in {g \in names : Matches(CompleteDataPattern, g)}}

\* The places in the characters s where six digits stand between at least one
\* character before and one after them.
InnerDatePlaces(s) == {i \in 2..(Len(s) - 6) : SixDigitsAt(s, i)}

\* The dates the names carry inside them (the last one of each name), whatever
\* category the names belong to.
InnerDates(names) ==
    {SubSeq(Chars(f), CHOOSE i \in InnerDatePlaces(Chars(f)) :
                          \A j \in InnerDatePlaces(Chars(f)) : j <= i,
                      5 + (CHOOSE i \in InnerDatePlaces(Chars(f)) :
                          \A j \in InnerDatePlaces(Chars(f)) : j <= i)) :
       f \in {g \in names : InnerDatePlaces(Chars(g)) # {}}}

\* C4 as the specification states it: the first cutoff is the day after the
\* most recent complete dump of the collection, "000000" without one; files of
\* other categories do not influence it.
C4_CutoffFromCompleteDump ==
    AtFirstListing =>
        download_cutoff_date =
            IF CompleteDumpDates(store) = {} THEN Epoch
            ELSE IncrementStringDate(Latest(CompleteDumpDates(store)))

\* C4, amended: the first cutoff is the day after the most recent date that
\* any file of the collection, of whatever category, carries as six digits
\* followed by at least one more character; it is "000000" when no file
\* carries such a date. Names that end with their date or have none do not
\* count.
C4_CutoffFromMostRecentFile ==
    AtFirstListing =>
        download_cutoff_date =
            IF InnerDates(store) \ {Epoch} = {} THEN Epoch
            ELSE IncrementStringDate(Latest(InnerDates(store) \ {Epoch}))

C4_Witness ==
    /\ AtFirstListing
    /\ CompleteDumpDates(store) # {}
    /\ StrLess(IncrementStringDate(Latest(CompleteDumpDates(store))),
               download_cutoff_date)
    /\ \E f \in store : InnerDatePlaces(Chars(f)) = {} /\ Matches(older_than_filename_regex, f)

\* The sections Main() lists with its cutoff after the complete dumps.
LaterSections ==
    {"Differenzabzug", "Loeschlisten", "Loeschlisten2", "Hinweisabzug", "Errors"}

\* A complete dump batch was accepted in this run.
CompleteDataAccepted == Entries("complete data") # {}

\* The cutoff the sections after the complete dumps are to be listed with: the
\* one date the files of the accepted batch carry, else the first cutoff.
CutoffInForce ==
    IF CompleteDataAccepted
    THEN Latest({Group1(CompleteDataPattern, log[i].arg) :
                   i \in {j \in Entries("download") : log[j].section = "Kompletter Abzug"}})
    ELSE log[1].arg

\* C5 as the specification states it: once a complete dump batch has been
\* accepted, every later category (differential, deletion lists, second
\* deletion list, reference-term hints, error reports) is listed with that
\* batch's date as cutoff; without an accepted batch, with the first cutoff.
C5_LaterSectionsUseBatchDate ==
    \A i \in Entries("list") :
        log[i].section \in LaterSections => log[i].arg = CutoffInForce

\* C5, amended: the same for the differential, the two deletion lists and the
\* error reports; the reference-term hints are always listed with "000000".
C5_LaterSectionsButHints ==
    \A i \in Entries("list") :
        /\ log[i].section \in LaterSections \ {"Hinweisabzug"} =>
               log[i].arg = CutoffInForce
        /\ log[i].section = "Hinweisabzug" => log[i].arg = Epoch

C5_Witness ==
    /\ CompleteDataAccepted
    /\ CutoffInForce # log[1].arg
    /\ \E i \in Entries("list") : log[i].section = "Hinweisabzug"
    /\ \E i \in Entries("list") : log[i].section = "Errors"

RECURSIVE PlusDays(_, _)
PlusDays(d, n) == IF n = 0 THEN d ELSE PlusDays(NextDay(d), n - 1)

\* Date a lies ten calendar days before date b.
TenDaysBefore(a, b) ==
    /\ StrptimeOk(a)
    /\ StrptimeOk(b)
    /\ PlusDays(Strptime(a), 10) = Strptime(b)

\* The collection holds an authority differential dated after date d.
AuthorityDumpAfter(d) ==
    \E f \in store :
        /\ Matches(AuthorityDataPattern, f)
        /\ StrLess(d, Group1(AuthorityDataPattern, f))

\* C9: the authority differentials get the cutoff ten days before Main()'s
\* cutoff. Their download is skipped if and only if the collection holds an
\* authority differential dated after that shifted cutoff; otherwise they are
\* listed with the shifted cutoff, which yields the files dated at or after it.
C9_AuthorityCutoffAndSkip ==
    /\ (pc = "CleanUp" /\ log[Len(log)].op = "skip") =>
           /\ TenDaysBefore(log[Len(log)].arg, download_cutoff_date)
           /\ AuthorityDumpAfter(log[Len(log)].arg)
    /\ (pc = "DownloadData" /\ section = "Normdatendifferenzabzug") =>
           /\ TenDaysBefore(list_cutoff, download_cutoff_date)
           /\ ~AuthorityDumpAfter(list_cutoff)
           /\ step # "list" =>
                  filenames =
                      {f \in remote[DirectoryOnFtpServer(section)] :
                         /\ Matches(AuthorityDataPattern, f)
                         /\ ~StrLess(Group1(AuthorityDataPattern, f), list_cutoff)}

C9_Witness ==
    /\ pc = "CleanUp"
    /\ log[Len(log)].op = "skip"
    /\ \E f \in store :
           /\ Matches(AuthorityDataPattern, f)
           /\ StrLess(Group1(AuthorityDataPattern, f), log[Len(log)].arg)

-----------------------------------------------------------------------------
(* Properties of the run as a whole *)

ConsistencyFailures ==
    {"generation is not complete", "downloaded multiple complete date tar files",
     "complete data dump set with differing dates", "does not contain a date"}

IOFailures ==
    {"backup directory is missing", "can't change directory", "listing failed",
     "File download failed", "Adding file to cumulative collection failed"}

ConfigFailures == {"Invalid section"}

\* C6: a category with an empty batch is reported and does not abort the run:
\* unless a consistency failure or an I/O failure (or a faulty config file)
\* ends it, the run ends with the summary notification.
C6_EmptyBatchDoesNotAbort ==
    pc = "exited" =>
        \/ LastMail.priority = 5
        \/ LastMail.text \in ConsistencyFailures \cup IOFailures \cup ConfigFailures

\* C7: no step of the synchronization removes a file from the collection:
\* outside the two deletions of the clean-up the collection only grows, also
\* in the step in which the run fails.
C7_StoreOnlyGrows ==
    [][(pc \notin {"CleanUpPass1", "CleanUpPass2"}) => store \subseteq store']_vars

\* A later section failed after the files of the complete dump were archived.
C7_Witness ==
    /\ pc = "exited"
    /\ exit_status = "nonzero"
    /\ section = "Differenzabzug"
    /\ \E i \in Entries("download") :
           /\ log[i].section = "Kompletter Abzug"
           /\ log[i].arg \in store

\* C10: a paired complete dump batch whose files differ in their dates ends
\* the run with an error, and none of the files of that batch is in the
\* cumulative collection.
C10_MismatchedBatchNotArchived ==
    (/\ pc = "exited"
     /\ section = "Kompletter Abzug"
     /\ step = "check"
     /\ NeedsBothInstances(CompleteDataPattern)
     /\ Cardinality(CompleteDumpDates(filenames)) > 1)
        => /\ LastMail.priority = 1
           /\ filenames \cap store = {}

-----------------------------------------------------------------------------
(* Properties of the end of the process *)

\* The summary notification of the last line of Main().
SummaryMails == {i \in 1..Len(mails) : mails[i].priority = 5}

\* C11: a run without fatal condition sends exactly the summary notification
\* and returns normally (exit status zero); a run that ends in a fatal
\* condition sends an error notification, sends no summary notification and
\* ends the process with a non-zero status.
C11_ExitContract ==
    pc = "exited" =>
        /\ Len(mails) = 1
        /\ \/ /\ LastMail.priority = 5
              /\ exit_status = "zero"
           \/ /\ LastMail.priority = 1
              /\ SummaryMails = {}
              /\ exit_status = "nonzero"

-----------------------------------------------------------------------------
(* Properties of the remote listing *)

\* The number a string of six digits reads as.
DateNumber(d) ==
    100000 * DigitVal(d[1]) + 10000 * DigitVal(d[2]) + 1000 * DigitVal(d[3])
    + 100 * DigitVal(d[4]) + 10 * DigitVal(d[5]) + DigitVal(d[6])

\* The listing of the current section has returned.
Listed ==
    /\ section # "none"
    /\ has_section(section)
    /\ step \in {"validate", "download", "check"}

\* The names the FTP server offers in the directory of the current section.
Offered == remote[DirectoryOnFtpServer(section)]

SectionPattern == ConfigFiles[config][section].filename_pattern

-----------------------------------------------------------------------------
(* The functions of the script, called by themselves *)

\* Every calendar date strptime("%y%m%d") accepts.
CalendarDates ==
    {Strftime([year |-> t[1], month |-> t[2], day |-> t[3]]) :
        t \in {u \in (1969..2068) \X (1..12) \X (1..31) :
                  u[3] <= DaysInMonth(u[1], u[2])}}

\* Bound on the number of names handed to DownloadRemoteFiles' check.
MaxBatch == 4

\* The arguments of a call: a date in download_cutoff_date, names in
\* filenames, the section whose pattern is meant in section; step names the
\* function, and the value it returns goes to the log.
Calls ==
    /\ config \in DOMAIN ConfigFiles
    /\ backup_exists = TRUE
    /\ store = {}
    /\ remote = [d \in Directories |-> {}]
    /\ local_files = {}
    /\ list_cutoff = None
    /\ attempt = 0
    /\ slept = <<>>
    /\ most_recent_complete_data_date = None
    /\ store_at_cleanup = {}
    /\ msg = <<>>
    /\ log = <<>>
    /\ mails = <<>>
    /\ exit_status = "running"
    /\ \/ /\ config = "example"
          /\ pc = "call"
          /\ step \in {"IncrementStringDate", "ShiftDateToTenDaysBefore"}
          /\ download_cutoff_date \in CalendarDates \cup {Epoch}
          /\ section = "none"
          /\ filenames = {}
          /\ pending = {}
       \/ /\ pc = "call"
          /\ step = "ExtractDateFromFilename"
          /\ download_cutoff_date = None
          /\ section \in DOMAIN ConfigFiles[config]
          /\ \E f \in DOMAIN CharsOf :
                 /\ Matches(ConfigFiles[config][section].filename_pattern, f)
                 /\ filenames = {f}
          /\ pending = {}
       \/ /\ pc = "DownloadData"
          /\ step = "validate"
          /\ download_cutoff_date = Epoch
          /\ section \in DOMAIN ConfigFiles[config]
          /\ filenames \in {s \in SUBSET DOMAIN CharsOf : Cardinality(s) <= MaxBatch}
          /\ pending = filenames

Return(value) ==
    /\ pc' = "returned"
    /\ Logged(step, section, value)
    /\ UNCHANGED <<mails, exit_status>>

CallIncrementStringDate ==
    /\ pc = "call"
    /\ step = "IncrementStringDate"
    /\ Return(IncrementStringDate(download_cutoff_date))
    /\ UNCHANGED <<config, backup_exists, store, remote, local_files, section, step,
                   download_cutoff_date, list_cutoff, filenames, pending, attempt,
                   slept, most_recent_complete_data_date, store_at_cleanup, msg>>

CallShiftDateToTenDaysBefore ==
    /\ pc = "call"
    /\ step = "ShiftDateToTenDaysBefore"
    /\ IF ShiftDateRaises(download_cutoff_date)
       THEN UnexpectedError("ValueError") /\ UNCHANGED log
       ELSE Return(ShiftDateToTenDaysBefore(download_cutoff_date))
    /\ UNCHANGED <<config, backup_exists, store, remote, local_files, section, step,
                   download_cutoff_date, list_cutoff, filenames, pending, attempt,
                   slept, most_recent_complete_data_date, store_at_cleanup, msg>>

CallExtractDateFromFilename ==
    /\ pc = "call"
    /\ step = "ExtractDateFromFilename"
    /\ \E filename \in filenames :
           IF ExtractDateFromFilename(filename) = None
           THEN UtilError("does not contain a date") /\ UNCHANGED log
           ELSE Return(ExtractDateFromFilename(filename))
    /\ UNCHANGED <<config, backup_exists, store, remote, local_files, section, step,
                   download_cutoff_date, list_cutoff, filenames, pending, attempt,
                   slept, most_recent_complete_data_date, store_at_cleanup, msg>>

FunctionCall ==
    \/ CallIncrementStringDate
    \/ CallShiftDateToTenDaysBefore
    \/ CallExtractDateFromFilename
    \/ ValidateBatch

Functions == Calls /\ [][FunctionCall]_vars

\* The value the called function returned.
Returned == log[Len(log)].arg

-----------------------------------------------------------------------------
(* Properties of the functions *)

\* The stem s names an instance without local data: it ends in "_o".
WithoutLocalData(s) ==
    /\ Len(s) >= 2
    /\ s[Len(s) - 1] = "_"
    /\ s[Len(s)] = "o"

\* The category of the pattern comes in instances with and without local data.
RequiresPairedInstances(regex) ==
    \E i \in 1..Len(regex.alts) : WithoutLocalData(regex.alts[i])

\* The check of DownloadRemoteFiles has been made on the batch in filenames.
BatchChecked ==
    /\ section # "none"
    /\ has_section(section)
    /\ \/ step = "download"
       \/ step = "validate" /\ pc = "exited"

\* The check found the batch complete: the downloads may begin.
BatchComplete == step = "download"

\* C13: an empty batch is complete; the batch of a category that does not
\* need paired instances is complete; a non-empty batch of a category that
\* needs them is complete if and only if the number of its names that match
\* the category's pattern is even. An incomplete batch ends the run.
C13_BatchCompleteIffEven ==
    BatchChecked =>
        /\ filenames = {} => BatchComplete
        /\ ~RequiresPairedInstances(SectionPattern) => BatchComplete
        /\ (RequiresPairedInstances(SectionPattern) /\ filenames # {}) =>
               (BatchComplete <=> Cardinality(MatchingBatch) % 2 = 0)
        /\ ~BatchComplete =>
               /\ exit_status = "nonzero"
               /\ LastMail.text = "generation is not complete"

\* A batch of four matching names of a paired category was found complete.
C13_Witness ==
    /\ BatchChecked
    /\ BatchComplete
    /\ RequiresPairedInstances(SectionPattern)
    /\ Cardinality(filenames) = 4
    /\ MatchingBatch = filenames

\* Date b is the calendar day after date a, both as strptime reads them but
\* for the century, which the six digits do not carry.
DayAfter(a, b) ==
    LET next == NextDay(Strptime(a))
    IN /\ StrptimeOk(b)
       /\ Strptime(b).year % 100 = next.year % 100
       /\ Strptime(b).month = next.month
       /\ Strptime(b).day = next.day

\* The last date of the hundred years the two digits of %y stand for.
D991231 == <<"9", "9", "1", "2", "3", "1">>

D201231 == <<"2", "0", "1", "2", "3", "1">>

D210101 == <<"2", "1", "0", "1", "0", "1">>

\* C14 as stated: IncrementStringDate maps "000000" to itself and every other
\* calendar date to the next calendar day, which is greater than the date
\* under string comparison.
C14_SuccessorIsGreater ==
    (step = "IncrementStringDate" /\ pc = "returned") =>
        IF download_cutoff_date = Epoch
        THEN Returned = Epoch
        ELSE /\ DayAfter(download_cutoff_date, Returned)
             /\ DateNumber(Returned) > DateNumber(download_cutoff_date)

\* C14: IncrementStringDate maps "000000" to itself and every other calendar
\* date to the next calendar day. The result is greater than the date under
\* string comparison, except for "991231", whose next day is "000101".
C14_SuccessorIsGreaterButAfter99 ==
    (step = "IncrementStringDate" /\ pc = "returned") =>
        IF download_cutoff_date = Epoch
        THEN Returned = Epoch
        ELSE /\ DayAfter(download_cutoff_date, Returned)
             /\ download_cutoff_date # D991231 =>
                    DateNumber(Returned) > DateNumber(download_cutoff_date)
             /\ download_cutoff_date = D991231 =>
                    Returned = <<"0", "0", "0", "1", "0", "1">>

\* The day after the last day of a year was asked for.
C14_Witness ==
    /\ step = "IncrementStringDate"
    /\ pc = "returned"
    /\ download_cutoff_date = D201231
    /\ Returned = D210101

\* date - datetime.timedelta(days=n), written with "%y%m%d"
ShiftBack(d, n) == Strftime(MinusDays(Strptime(d), n))

\* C15: ShiftDateToTenDaysBefore is defined for every date that occurs as a
\* cutoff, "000000" included, and what it returns is not greater than the
\* date under the string comparison of the callers; going back one day more
\* never gives a greater date.
C15_ShiftBackNonIncreasing ==
    (step = "ShiftDateToTenDaysBefore" /\ pc # "call") =>
        /\ pc = "returned"
        /\ Returned = ShiftBack(download_cutoff_date, 10)
        /\ DateNumber(Returned) <= DateNumber(download_cutoff_date)
        /\ \A n \in 0..9 :
               DateNumber(ShiftBack(download_cutoff_date, n + 1))
                   <= DateNumber(ShiftBack(download_cutoff_date, n))

\* C16: for every name made of a prefix, a date and a suffix that the pattern
\* of a configured category matches, the patterns whose names end with the
\* date included, ExtractDateFromFilename returns the date the group of the
\* pattern captures.
C16_ExtractDateRoundTrips ==
    (step = "ExtractDateFromFilename" /\ pc # "call") =>
        /\ pc = "returned"
        /\ \A f \in filenames : Returned = Group1(SectionPattern, f)

-----------------------------------------------------------------------------
(* Properties of the retries of the remote listing *)

\* The steps of the current section the log holds.
StepsOfSection == {log[i].op : i \in {j \in 1..Len(log) : log[j].section = section}}

\* What holds in every state of a listing call.
ListingRetries ==
    /\ attempt \in 0..3
    /\ Len(slept) = attempt
    /\ \A i \in 1..Len(slept) : slept[i] = 10 * i
    /\ (pc = "DownloadData" /\ step = "list") => (filenames = {} /\ pending = {})
    /\ (pc = "exited" /\ LastMail.text = "listing failed") =>
           /\ slept = <<10, 20, 30>>
           /\ LastMail.priority = 1
           /\ StepsOfSection \cap {"list", "validate", "download", "archive"} = {}
           /\ filenames = {}
    /\ (pc = "exited" /\ LastMail.text = "can't change directory") =>
           /\ slept = <<>>
           /\ exit_status = "nonzero"
           /\ StepsOfSection \cap {"list", "validate", "download", "archive"} = {}

\* What holds of every step of a listing call.
ListingStep ==
    /\ attempt' > attempt =>
           /\ attempt' = attempt + 1
           /\ slept' = Append(slept, 10 * attempt')
           /\ UNCHANGED <<filenames, pending, local_files, store, pc, step>>
    /\ (step = "list" /\ step' = "validate") =>
           /\ attempt < 3
           /\ filenames' = {f \in remote[DirectoryOnFtpServer(section)] :
                              /\ Matches(ConfigFiles[config][section].filename_pattern, f)
                              /\ DateNumber(Group1(ConfigFiles[config][section].filename_pattern, f))
                                     >= DateNumber(list_cutoff)}
    /\ (step = "list" /\ pc' = "exited" /\ attempt > 0) => attempt = 3

\* C17: a listing call makes at most 3 attempts; the failure of attempt i is
\* followed by a sleep of 10*i seconds; an attempt that succeeds returns the
\* names of that attempt only; after 3 failed attempts the error is surfaced
\* and nothing of the category is downloaded or archived; a failure to change
\* into the directory ends the run at once, without a retry.
C17_ListingRetriedThreeTimes == []ListingRetries /\ [][ListingStep]_vars

\* The listing of a later category gave up after three attempts.
C17_Witness ==
    /\ pc = "exited"
    /\ LastMail.text = "listing failed"
    /\ section = "Differenzabzug"
    /\ slept = <<10, 20, 30>>
    /\ store # {}

-----------------------------------------------------------------------------
(* Properties of the order of a run *)

\* The place of a category in the order of a run: full dump, differential,
\* deletion lists, second deletion lists, hints, error reports, authority
\* differential; 0 for what belongs to no category.
CategoryRank(sec) ==
    CASE sec = "Kompletter Abzug" -> 1
      [] sec = "Differenzabzug" -> 2
      [] sec = "Loeschlisten" -> 3
      [] sec = "Loeschlisten2" -> 4
      [] sec = "Hinweisabzug" -> 5
      [] sec = "Errors" -> 6
      [] sec = "Normdatendifferenzabzug" -> 7
      [] OTHER -> 0

\* The place of a step within its category.
StepRank(op) ==
    CASE op = "list" -> 1
      [] op = "validate" -> 2
      [] op = "download" -> 3
      [] op = "archive" -> 4
      [] OTHER -> 5

CategorySteps == {i \in 1..Len(log) : CategoryRank(log[i].section) > 0}

CleanUpSteps == Entries("cleanup") \cup Entries("cleanup skipped")

\* The categories a run of this config goes through.
Categories ==
    {s \in DOMAIN ConfigFiles[config] : CategoryRank(s) > 0}
    \cup {"Kompletter Abzug", "Differenzabzug", "Loeschlisten"}

\* The category has been gone through: archived, or skipped as present.
Processed(sec) ==
    \E i \in CategorySteps :
        /\ log[i].section = sec
        /\ log[i].op \in {"archive", "skip"}

RunInOrder ==
    /\ \A i, j \in CategorySteps :
           i < j =>
               /\ CategoryRank(log[i].section) <= CategoryRank(log[j].section)
               /\ log[i].section = log[j].section =>
                      /\ StepRank(log[i].op) <= StepRank(log[j].op)
                      /\ log[i].op = log[j].op => log[i].op = "download"
    /\ \A i \in CategorySteps : has_section(log[i].section)
    /\ Cardinality(CleanUpSteps) <= 1
    /\ \A c \in CleanUpSteps :
           /\ \A i \in CategorySteps : i < c
           /\ \A s \in Categories : Processed(s)
    /\ \A p \in Entries("prune") : \E c \in CleanUpSteps : c < p
    /\ (pc = "exited" /\ LastMail.priority = 5) => Cardinality(CleanUpSteps) = 1
    /\ (pc = "DownloadData" /\ step # "list") =>
           \E i \in CategorySteps : log[i].section = section /\ log[i].op = "list"

\* C18: the categories are gone through one after another in the order full
\* dump, differential, deletion lists, the configured ones of second deletion
\* lists, hints and error reports, authority differential; the steps of a
\* category come in the order list, validate, download, archive; the clean-up
\* runs once, after all categories; and after a fatal error no step follows.
C18_CategoriesInOrder == []RunInOrder /\ [][pc # "exited"]_vars

\* A run that downloaded files of two categories and ended with the clean-up
\* and the summary.
C18_Witness ==
    /\ pc = "exited"
    /\ LastMail.priority = 5
    /\ config = "example"
    /\ Entries("cleanup") # {}
    /\ \E i, j \in Entries("download") :
           /\ log[i].section = "Kompletter Abzug"
           /\ log[j].section = "Normdatendifferenzabzug"

====
